---- MODULE Spec2Model ----
(***************************************************************************)
(* The projection engine of the Investment Calculator: calculateInvestment *)
(* (services/finance) applied to a mode and an input record.               *)
(*                                                                         *)
(* JavaScript numbers are modelled as exact rationals n/d (d > 0, lowest   *)
(* terms) extended with the three non-finite IEEE values: NaN (0/0),       *)
(* +Infinity (1/0) and -Infinity (-1/0).  An absent input property is the  *)
(* value undefined.  Every arithmetic operator below follows the IEEE      *)
(* rules for the non-finite values; the finite part is exact, so a         *)
(* difference the model shows is a difference of the formulas, never of    *)
(* the last binary digit.  The sign of zero is not modelled (-0 === 0).    *)
(***************************************************************************)
EXTENDS Integers, Sequences, FiniteSets, TLC

\* The state of the App component (mode, inputs, result, isCalculating,
\* progress, aiData), the handleCalculate invocations that have not finished
\* (calls), how the page was built (build) and the last reply of the advisory
\* service (reply)
VARIABLES mode, inputs, result, isCalculating, progress, aiData, calls, build, reply

vars == <<mode, inputs, result, isCalculating, progress, aiData, calls, build, reply>>

---------------------------------------------------------------------------
(* JavaScript numbers *)

NaN == [n |-> 0, d |-> 0]

Infinity == [n |-> 1, d |-> 0]

NegInfinity == [n |-> -1, d |-> 0]

undefined == [n |-> 0, d |-> -1]

Abs(k) == IF k < 0 THEN -k ELSE k

Sgn(k) == IF k > 0 THEN 1 ELSE IF k < 0 THEN -1 ELSE 0

RECURSIVE GCD(_, _)
GCD(a, b) == IF b = 0 THEN a ELSE GCD(b, a % b)

\* the rational n/d, d > 0, in lowest terms
Frac(n, d) ==
    LET g == GCD(Abs(n), d)
    IN  [n |-> n \div g, d |-> d \div g]

Num(k) == [n |-> k, d |-> 1]

isNaN(a) == a.d = 0 /\ a.n = 0

isFinite(a) == a.d > 0

\* ToNumber: an absent property used in arithmetic is NaN
ToNumber(a) == IF a = undefined THEN NaN ELSE a

Neg(a) == [n |-> -a.n, d |-> a.d]

\* a + b
Add(a, b) ==
    IF isNaN(a) \/ isNaN(b) THEN NaN
    ELSE IF a.d = 0 THEN (IF b.d = 0 /\ b.n # a.n THEN NaN ELSE a)
    ELSE IF b.d = 0 THEN b
    ELSE LET g == GCD(a.d, b.d)
         IN  Frac(a.n * (b.d \div g) + b.n * (a.d \div g), (a.d \div g) * b.d)

\* a - b
Sub(a, b) == Add(a, Neg(b))

\* a * b
Mul(a, b) ==
    IF isNaN(a) \/ isNaN(b) THEN NaN
    ELSE IF a.d = 0 \/ b.d = 0
         THEN (IF a.n = 0 \/ b.n = 0 THEN NaN
               ELSE [n |-> Sgn(a.n) * Sgn(b.n), d |-> 0])
    ELSE IF a.n = 0 \/ b.n = 0 THEN Num(0)
    ELSE LET g1 == GCD(Abs(a.n), b.d)
             g2 == GCD(Abs(b.n), a.d)
         IN  [n |-> (a.n \div g1) * (b.n \div g2),
              d |-> (a.d \div g2) * (b.d \div g1)]

\* a / b: x/0 is +-Infinity, 0/0 and Infinity/Infinity are NaN
Div(a, b) ==
    IF isNaN(a) \/ isNaN(b) THEN NaN
    ELSE IF b.d = 0 THEN (IF a.d = 0 THEN NaN ELSE Num(0))
    ELSE IF b.n = 0
         THEN (IF a.n = 0 THEN NaN ELSE [n |-> Sgn(a.n), d |-> 0])
    ELSE IF a.d = 0 THEN [n |-> Sgn(a.n) * Sgn(b.n), d |-> 0]
    ELSE Mul(a, [n |-> Sgn(b.n) * b.d, d |-> Abs(b.n)])

\* a < b; every comparison with NaN is false
Lt(a, b) ==
    IF isNaN(a) \/ isNaN(b) THEN FALSE
    ELSE IF a.d = 0 \/ b.d = 0
         THEN a # b /\ (a = NegInfinity \/ b = Infinity)
    ELSE IF b.n = 0 THEN a.n < 0
    ELSE IF a.n = 0 THEN b.n > 0
    ELSE a.n * b.d < b.n * a.d

\* a <= b
Le(a, b) == ~isNaN(a) /\ ~isNaN(b) /\ (a = b \/ Lt(a, b))

\* a > b
Gt(a, b) == Lt(b, a)

\* a === b on numbers: NaN equals nothing, itself included
StrictEq(a, b) == ~isNaN(a) /\ ~isNaN(b) /\ a = b

\* the truth value of a number: 0, NaN and undefined are falsy
Truthy(a) == a # undefined /\ ~isNaN(a) /\ a.n # 0

\* a || b
OrElse(a, b) == IF Truthy(a) THEN a ELSE b

\* a destructuring default: only an absent property takes it
Default(a, dflt) == IF a = undefined THEN dflt ELSE a

\* Math.max(a, b)
MathMax(a, b) ==
    IF isNaN(a) \/ isNaN(b) THEN NaN ELSE IF Lt(a, b) THEN b ELSE a

\* Math.round: the nearest integer, halves towards +Infinity
MathRound(a) ==
    IF ~isFinite(a) THEN a
    ELSE LET q == a.n \div a.d
             rem == a.n % a.d
         IN  Num(IF 2 * rem >= a.d THEN q + 1 ELSE q)

IsInteger(a) == isFinite(a) /\ a.d = 1

RECURSIVE PowInt(_, _)
PowInt(x, k) == IF k = 0 THEN Num(1) ELSE Mul(x, PowInt(x, k - 1))

\* Math.pow(x, y) for the exponents the engine's schedule uses: x^0 is 1 even
\* for NaN, a NaN exponent gives NaN, 1^y is 1 for finite y
MathPow(x, y) ==
    CASE isFinite(y) /\ y.n = 0 -> Num(1)
      [] isNaN(y) -> NaN
      [] isNaN(x) -> NaN
      [] IsInteger(y) /\ y.n > 0 -> PowInt(x, y.n)
      [] isFinite(y) /\ x = Num(1) -> Num(1)

\* a loop that stops one short: for (let i = 1; i < m; i++)
LoopCountExclusive(m) ==
    IF isFinite(m) /\ m.n > 0 THEN (m.n + m.d - 1) \div m.d - 1 ELSE 0

\* the number of iterations of for (let i = 1; i <= m; i++)
LoopCount(m) == IF isFinite(m) /\ m.n > 0 THEN m.n \div m.d ELSE 0

---------------------------------------------------------------------------
(* calculateInvestment *)

Modes == {"SIP", "LUMPSUM", "STOCK", "PROPERTY", "LOAN", "COMPOUND", "ROI",
          "TAX", "GOAL", "RETIREMENT"}

\* the destructuring of the input record with its defaults; now is the year
\* new Date().getFullYear() returns when startYear is absent
Destructure(in, now) ==
    [in EXCEPT !.initialInvestment = Default(@, Num(0)),
               !.monthlyContribution = Default(@, Num(0)),
               !.stepUpRate = Default(@, Num(0)),
               !.compoundingFrequency = Default(@, Num(1)),
               !.inflationRate = Default(@, Num(0)),
               !.taxRate = Default(@, Num(0)),
               !.expenseRatio = Default(@, Num(0)),
               !.startYear = Default(@, Num(now))]

\* a rate left to go negative when the expense ratio exceeds it
effectiveRateSigned(in) ==
    Sub(ToNumber(in.interestRate), OrElse(in.expenseRatio, Num(0)))

\* effectiveRate: the nominal rate less the expense ratio, floored at 0
effectiveRate(in) ==
    MathMax(Num(0), Sub(ToNumber(in.interestRate), OrElse(in.expenseRatio, Num(0))))

\* r = effectiveRate / 100
rOf(in) == Div(effectiveRate(in), Num(100))

\* monthlyRate, ratePerMonth = r / 12
monthlyRateOf(in) == Div(rOf(in), Num(12))

\* duration: timePeriodYears, overridden in RETIREMENT mode by the ages
durationOf(m, in) ==
    IF m = "RETIREMENT" /\ Truthy(in.currentAge) /\ Truthy(in.retirementAge)
    THEN MathMax(Num(1), Sub(in.retirementAge, in.currentAge))
    ELSE in.timePeriodYears

\* months = duration * 12
monthsOf(m, in) == Mul(ToNumber(durationOf(m, in)), Num(12))

\* inflationFactor = Math.pow(1 + inflationRate / 100, year)
inflationFactor(in, year) ==
    MathPow(Add(Num(1), Div(in.inflationRate, Num(100))), year)

\* the row the SIP, RETIREMENT and GOAL loops push at a 12-month boundary
BalanceRow(in, year, currentInvested, currentBalance) ==
    [year |-> year,
     label |-> Add(in.startYear, year),
     invested |-> MathRound(currentInvested),
     interest |-> MathRound(Sub(currentBalance, currentInvested)),
     total |-> MathRound(currentBalance),
     realValue |-> MathRound(Div(currentBalance, inflationFactor(in, year)))]

\* the row of the LUMPSUM, COMPOUND, STOCK and ROI loops: invested is stored
\* as it is, the value is rounded
ValueRow(in, i, totalInvested, val) ==
    [year |-> Num(i),
     label |-> Add(in.startYear, Num(i)),
     invested |-> totalInvested,
     interest |-> MathRound(Sub(val, totalInvested)),
     total |-> MathRound(val),
     realValue |-> MathRound(Div(val, inflationFactor(in, Num(i))))]

\* the rows of a for (let i = 1; i <= t; i++) loop whose body pushes Row(i)
LoopRows(t, Row(_)) ==
    IF LoopCount(ToNumber(t)) = 0 THEN <<>>
    ELSE [i \in 1..LoopCount(ToNumber(t)) |-> Row(i)]

\* what a case of the switch leaves behind: the unrounded totals, the rows and
\* the mode's extras
Outcome(totalInvested, finalValue, yearlyData, monthlyPayment, roiPercentage) ==
    [totalInvested |-> totalInvested,
     finalValue |-> finalValue,
     yearlyData |-> yearlyData,
     monthlyPayment |-> monthlyPayment,
     roiPercentage |-> roiPercentage]

\* the one element of a one-element set
Only(S) == CHOOSE x \in S : TRUE

\* a month whose invested total counts the contribution of the inputs, not the
\* stepped-up one
SipMonthFlatInvested(in, monthlyRate, i, st) ==
    LET bal == Add(Mul(st.currentBalance, Add(Num(1), monthlyRate)),
                   st.currentMonthlyContribution)
        inv == Add(st.currentInvested, in.monthlyContribution)
    IN  [currentBalance |-> bal,
         currentInvested |-> inv,
         currentMonthlyContribution |->
             IF i % 12 = 0 /\ Gt(in.stepUpRate, Num(0))
             THEN Mul(st.currentMonthlyContribution,
                      Add(Num(1), Div(in.stepUpRate, Num(100))))
             ELSE st.currentMonthlyContribution,
         yearlyData |->
             IF i % 12 = 0
             THEN Append(st.yearlyData, BalanceRow(in, Num(i \div 12), inv, bal))
             ELSE st.yearlyData]

\* a month that steps the contribution up before paying it in: the last
\* month of a year is already paid at the next year's level
SipMonthStepFirst(in, monthlyRate, i, st) ==
    LET c == IF i % 12 = 0 /\ Gt(in.stepUpRate, Num(0))
             THEN Mul(st.currentMonthlyContribution,
                      Add(Num(1), Div(in.stepUpRate, Num(100))))
             ELSE st.currentMonthlyContribution
        bal == Add(Mul(st.currentBalance, Add(Num(1), monthlyRate)), c)
        inv == Add(st.currentInvested, c)
    IN  [currentBalance |-> bal,
         currentInvested |-> inv,
         currentMonthlyContribution |-> c,
         yearlyData |->
             IF i % 12 = 0
             THEN Append(st.yearlyData, BalanceRow(in, Num(i \div 12), inv, bal))
             ELSE st.yearlyData]

\* SIP / RETIREMENT: the body of the loop for month i, st the loop's variables
SipMonth(in, monthlyRate, i, st) ==
    LET bal == Add(Mul(st.currentBalance, Add(Num(1), monthlyRate)),
                   st.currentMonthlyContribution)
        inv == Add(st.currentInvested, st.currentMonthlyContribution)
    IN  [currentBalance |-> bal,
         currentInvested |-> inv,
         currentMonthlyContribution |->
             IF i % 12 = 0 /\ Gt(in.stepUpRate, Num(0))
             THEN Mul(st.currentMonthlyContribution,
                      Add(Num(1), Div(in.stepUpRate, Num(100))))
             ELSE st.currentMonthlyContribution,
         yearlyData |->
             IF i % 12 = 0
             THEN Append(st.yearlyData, BalanceRow(in, Num(i \div 12), inv, bal))
             ELSE st.yearlyData]

\* SIP / RETIREMENT: months i..count of the loop
RECURSIVE SipLoop(_, _, _, _, _)
SipLoop(in, monthlyRate, i, count, st) ==
    IF i > count THEN st
    ELSE Only({SipLoop(in, monthlyRate, i + 1, count, next) :
                  next \in {SipMonth(in, monthlyRate, i, st)}})

\* totalInvested = currentInvested; finalValue = currentBalance
BalanceOutcome(st, monthlyPayment) ==
    Outcome(st.currentInvested, st.currentBalance, st.yearlyData, monthlyPayment, Num(0))

SipStrategy(m, in) ==
    BalanceOutcome(SipLoop(in, monthlyRateOf(in), 1, LoopCount(monthsOf(m, in)),
                           [currentBalance |-> in.initialInvestment,
                            currentInvested |-> in.initialInvestment,
                            currentMonthlyContribution |-> in.monthlyContribution,
                            yearlyData |-> <<>>]),
                   Num(0))

\* GOAL: target = targetAmount || 1000000
GoalTarget(in) == OrElse(in.targetAmount, Num(1000000))

\* GOAL: remainingTarget = target - lumpsumCompounded
GoalRemainingTarget(m, in) ==
    Sub(GoalTarget(in),
        Mul(in.initialInvestment,
            MathPow(Add(Num(1), monthlyRateOf(in)), monthsOf(m, in))))

\* a payment solved even when nothing remains: remainingTarget < 0 for <= 0
GoalPaymentStrictlyPast(remainingTarget, ratePerMonth, nMonths) ==
    IF Lt(remainingTarget, Num(0)) THEN Num(0)
    ELSE IF StrictEq(ratePerMonth, Num(0)) THEN Div(remainingTarget, nMonths)
    ELSE Div(Mul(remainingTarget, ratePerMonth),
             Sub(MathPow(Add(Num(1), ratePerMonth), nMonths), Num(1)))

\* GOAL: the level monthly contribution that closes remainingTarget
GoalPayment(remainingTarget, ratePerMonth, nMonths) ==
    IF Le(remainingTarget, Num(0)) THEN Num(0)
    ELSE IF StrictEq(ratePerMonth, Num(0)) THEN Div(remainingTarget, nMonths)
    ELSE Div(Mul(remainingTarget, ratePerMonth),
             Sub(MathPow(Add(Num(1), ratePerMonth), nMonths), Num(1)))

GoalMonthlyPayment(m, in) ==
    GoalPayment(GoalRemainingTarget(m, in), monthlyRateOf(in), monthsOf(m, in))

\* GOAL: the body of the schedule loop for month i
GoalMonth(in, ratePerMonth, monthlyPayment, i, st) ==
    LET bal == Add(Mul(st.currentBalance, Add(Num(1), ratePerMonth)), monthlyPayment)
        inv == Add(st.currentInvested, monthlyPayment)
    IN  [currentBalance |-> bal,
         currentInvested |-> inv,
         yearlyData |->
             IF i % 12 = 0
             THEN Append(st.yearlyData, BalanceRow(in, Num(i \div 12), inv, bal))
             ELSE st.yearlyData]

\* GOAL: months i..count of the schedule loop
RECURSIVE GoalLoop(_, _, _, _, _, _)
GoalLoop(in, ratePerMonth, monthlyPayment, i, count, st) ==
    IF i > count THEN st
    ELSE Only({GoalLoop(in, ratePerMonth, monthlyPayment, i + 1, count, next) :
                  next \in {GoalMonth(in, ratePerMonth, monthlyPayment, i, st)}})

\* a schedule whose balance forgets the lump sum: currentBalance = 0
GoalScheduleFromZero(m, in, monthlyPayment) ==
    BalanceOutcome(GoalLoop(in, monthlyRateOf(in), monthlyPayment, 1,
                            LoopCount(monthsOf(m, in)),
                            [currentBalance |-> Num(0),
                             currentInvested |-> in.initialInvestment,
                             yearlyData |-> <<>>]),
                   monthlyPayment)

\* GOAL: the schedule generated from the calculated payment
GoalSchedule(m, in, monthlyPayment) ==
    BalanceOutcome(GoalLoop(in, monthlyRateOf(in), monthlyPayment, 1,
                            LoopCount(monthsOf(m, in)),
                            [currentBalance |-> in.initialInvestment,
                             currentInvested |-> in.initialInvestment,
                             yearlyData |-> <<>>]),
                   monthlyPayment)

GoalStrategy(m, in) == GoalSchedule(m, in, GoalMonthlyPayment(m, in))

\* the supplied frequency used in LUMPSUM mode as well
compoundingOfSupplied(m, in) == OrElse(in.compoundingFrequency, Num(1))

\* LUMPSUM / COMPOUND: n, the compounding periods a year
compoundingOf(m, in) ==
    IF m = "COMPOUND" THEN OrElse(in.compoundingFrequency, Num(1)) ELSE Num(1)

\* initialInvestment * Math.pow(1 + (r / n), n * t)
CompoundValue(P, r, n, t) == Mul(P, MathPow(Add(Num(1), Div(r, n)), Mul(n, t)))

\* LUMPSUM / COMPOUND: closed-form compound interest
LumpsumStrategy(m, in) ==
    LET Row(i) == ValueRow(in, i, in.initialInvestment,
                           CompoundValue(in.initialInvestment, rOf(in),
                                         compoundingOf(m, in), Num(i)))
    IN  Outcome(in.initialInvestment,
                CompoundValue(in.initialInvestment, rOf(in), compoundingOf(m, in),
                              ToNumber(durationOf(m, in))),
                LoopRows(durationOf(m, in), Row),
                Num(0), Num(0))

\* LOAN: R_loan = interestRate / 12 / 100, the nominal monthly rate
LoanRate(in) == Div(Div(ToNumber(in.interestRate), Num(12)), Num(100))

\* LOAN: the EMI
LoanPayment(P, R_loan, N_loan) ==
    IF StrictEq(R_loan, Num(0)) THEN Div(P, N_loan)
    ELSE Div(Mul(Mul(P, R_loan), MathPow(Add(Num(1), R_loan), N_loan)),
             Sub(MathPow(Add(Num(1), R_loan), N_loan), Num(1)))

LoanMonthlyPayment(m, in) ==
    LoanPayment(in.initialInvestment, LoanRate(in), monthsOf(m, in))

\* a balance that lags a year: the months passed counted from the year's start
LoanRemainingYearBehind(P, R_loan, N_loan, monthsPassed) ==
    Div(Mul(P, Sub(MathPow(Add(Num(1), R_loan), N_loan),
                   MathPow(Add(Num(1), R_loan), Sub(monthsPassed, Num(12))))),
        Sub(MathPow(Add(Num(1), R_loan), N_loan), Num(1)))

\* LOAN: the balance outstanding after monthsPassed months
LoanRemaining(P, R_loan, N_loan, monthsPassed) ==
    Div(Mul(P, Sub(MathPow(Add(Num(1), R_loan), N_loan),
                   MathPow(Add(Num(1), R_loan), monthsPassed))),
        Sub(MathPow(Add(Num(1), R_loan), N_loan), Num(1)))

\* LOAN: the row pushed for year i
LoanRowOf(in, i, P, remaining, paidSoFar) ==
    [year |-> Num(i),
     label |-> Add(in.startYear, Num(i)),
     invested |-> MathRound(Sub(P, remaining)),
     interest |-> MathRound(Sub(paidSoFar, Sub(P, remaining))),
     total |-> MathRound(remaining),
     realValue |-> Num(0)]

LoanRow(m, in, i) ==
    LoanRowOf(in, i, in.initialInvestment,
              LoanRemaining(in.initialInvestment, LoanRate(in), monthsOf(m, in),
                            Num(i * 12)),
              Mul(LoanMonthlyPayment(m, in), Num(i * 12)))

LoanStrategy(m, in) ==
    LET Row(i) == LoanRow(m, in, i)
    IN  Outcome(in.initialInvestment,
                Mul(LoanMonthlyPayment(m, in), monthsOf(m, in)),
                LoopRows(durationOf(m, in), Row),
                LoanMonthlyPayment(m, in),
                Num(0))

\* a schedule that leaves the dividends out of the yearly values
StockOutcomeGainsOnly(in, duration, totalInvested, capitalGains, totalDividends) ==
    LET Row(i) == ValueRow(in, i, totalInvested,
                           Add(totalInvested, Mul(capitalGains, Div(Num(i), duration))))
    IN  Outcome(totalInvested,
                Add(Add(totalInvested, capitalGains), totalDividends),
                LoopRows(duration, Row),
                Num(0), Num(0))

\* STOCK: the totals and the linear schedule
StockOutcome(in, duration, totalInvested, capitalGains, totalDividends) ==
    LET Row(i) == ValueRow(in, i, totalInvested,
                           Add(Add(totalInvested, Mul(capitalGains, Div(Num(i), duration))),
                               Mul(Div(totalDividends, duration), Num(i))))
    IN  Outcome(totalInvested,
                Add(Add(totalInvested, capitalGains), totalDividends),
                LoopRows(duration, Row),
                Num(0), Num(0))

\* STOCK: capital gain and dividends spread linearly over the duration
StockStrategy(m, in) ==
    LET qty == OrElse(in.quantity, Num(0))
        bPrice == OrElse(in.buyPrice, Num(0))
        sPrice == OrElse(in.sellPrice, Num(0))
        divYield == OrElse(in.dividendYield, Num(0))
    IN  StockOutcome(in, ToNumber(durationOf(m, in)),
                     Mul(qty, bPrice),
                     Mul(Sub(sPrice, bPrice), qty),
                     Mul(Mul(Mul(bPrice, qty), Div(divYield, Num(100))),
                         ToNumber(durationOf(m, in))))

\* PROPERTY: the body of the loop for year i
PropertyYear(in, pPrice, appRate, yearlyNetRent, i, st) ==
    LET value == Mul(st.currentPropValue, Add(Num(1), Div(appRate, Num(100))))
        rent == Add(st.accumulatedNetRent, yearlyNetRent)
    IN  [currentPropValue |-> value,
         accumulatedNetRent |-> rent,
         yearlyData |->
             Append(st.yearlyData,
                    [year |-> Num(i),
                     label |-> Add(in.startYear, Num(i)),
                     invested |-> pPrice,
                     interest |-> MathRound(Add(Sub(value, pPrice), rent)),
                     total |-> MathRound(Add(value, rent)),
                     realValue |-> MathRound(Div(Add(value, rent),
                                                 inflationFactor(in, Num(i))))])]

\* PROPERTY: years i..count of the loop
RECURSIVE PropertyLoop(_, _, _, _, _, _, _)
PropertyLoop(in, pPrice, appRate, yearlyNetRent, i, count, st) ==
    IF i > count THEN st
    ELSE Only({PropertyLoop(in, pPrice, appRate, yearlyNetRent, i + 1, count, next) :
                  next \in {PropertyYear(in, pPrice, appRate, yearlyNetRent, i, st)}})

\* finalValue = currentPropValue + accumulatedNetRent
PropertyOutcome(pPrice, st) ==
    Outcome(pPrice, Add(st.currentPropValue, st.accumulatedNetRent), st.yearlyData,
            Num(0), Num(0))

\* PROPERTY: annual appreciation plus net rent, not reinvested
PropertyStrategy(m, in) ==
    LET pPrice == OrElse(in.propertyPrice, Num(0))
        rIncome == Mul(OrElse(in.rentalIncome, Num(0)), Num(12))
        mExpenses == Mul(OrElse(in.monthlyExpenses, Num(0)), Num(12))
        appRate == OrElse(in.appreciationRate, Num(0))
    IN  PropertyOutcome(pPrice,
                        PropertyLoop(in, pPrice, appRate, Sub(rIncome, mExpenses), 1,
                                     LoopCount(ToNumber(durationOf(m, in))),
                                     [currentPropValue |-> pPrice,
                                      accumulatedNetRent |-> Num(0),
                                      yearlyData |-> <<>>]))

\* ROI: the totals, the percentage and the linear schedule
RoiOutcome(in, duration, totalInvested, finalValue, profit) ==
    LET Row(i) == ValueRow(in, i, totalInvested,
                           Add(totalInvested, Mul(profit, Div(Num(i), duration))))
    IN  Outcome(totalInvested, finalValue, LoopRows(duration, Row), Num(0),
                IF Gt(totalInvested, Num(0))
                THEN Mul(Div(profit, totalInvested), Num(100))
                ELSE Num(0))

\* ROI: before/after valuation; finalValue = sellPrice || initialInvestment
RoiStrategy(m, in) ==
    RoiOutcome(in, ToNumber(durationOf(m, in)),
               in.initialInvestment,
               OrElse(in.sellPrice, in.initialInvestment),
               Sub(OrElse(in.sellPrice, in.initialInvestment), in.initialInvestment))

\* TAX: the single row and the totals
TaxOutcome(in, totalInvested, calculatedTax) ==
    Outcome(totalInvested,
            Sub(totalInvested, calculatedTax),
            << [year |-> Num(1),
                label |-> in.startYear,
                invested |-> totalInvested,
                interest |-> calculatedTax,
                total |-> Sub(totalInvested, calculatedTax),
                realValue |-> Sub(totalInvested, calculatedTax)] >>,
            Num(0), Num(0))

\* TAX: flat-rate tax on income less deductions
TaxStrategy(m, in) ==
    TaxOutcome(in, OrElse(in.annualIncome, Num(0)),
               Mul(MathMax(Num(0), Sub(OrElse(in.annualIncome, Num(0)),
                                       OrElse(in.deductions, Num(0)))),
                   Div(in.taxRate, Num(100))))

\* the switch over the mode
Strategy(m, in) ==
    CASE m \in {"SIP", "RETIREMENT"} -> SipStrategy(m, in)
      [] m = "GOAL" -> GoalStrategy(m, in)
      [] m \in {"LUMPSUM", "COMPOUND"} -> LumpsumStrategy(m, in)
      [] m = "LOAN" -> LoanStrategy(m, in)
      [] m = "STOCK" -> StockStrategy(m, in)
      [] m = "PROPERTY" -> PropertyStrategy(m, in)
      [] m = "ROI" -> RoiStrategy(m, in)
      [] m = "TAX" -> TaxStrategy(m, in)

\* a tax that follows the sign of the gain: a loss is taxed negatively
taxPayableSigned(m, in, totalInvested, finalValue) ==
    IF m # "LOAN" /\ m # "TAX"
    THEN Mul(Sub(finalValue, totalInvested), Div(in.taxRate, Num(100)))
    ELSE IF m = "TAX" THEN Sub(totalInvested, finalValue)
    ELSE Num(0)

\* tax on the gain; the tax itself in TAX mode; none for a loan
taxPayableOf(m, in, totalInvested, finalValue) ==
    IF m # "LOAN" /\ m # "TAX"
    THEN (IF Gt(Sub(finalValue, totalInvested), Num(0))
          THEN Mul(Sub(finalValue, totalInvested), Div(in.taxRate, Num(100)))
          ELSE Num(0))
    ELSE IF m = "TAX" THEN Sub(totalInvested, finalValue)
    ELSE Num(0)

\* the tax taken off in every mode, TAX included
postTaxValueLessTax(m, finalValue, taxPayable) == Sub(finalValue, taxPayable)

\* postTaxValue = finalValue - (mode === TAX ? 0 : taxPayable)
postTaxValueOf(m, finalValue, taxPayable) ==
    Sub(finalValue, IF m = "TAX" THEN Num(0) ELSE taxPayable)

\* a rate computed without looking at the duration
cagrOfAnyDuration(totalInvested, finalValue, duration) ==
    IF /\ Gt(totalInvested, Num(0))
       /\ Gt(finalValue, Num(0))
       /\ isFinite(Div(finalValue, totalInvested))
    THEN [ratio |-> Div(finalValue, totalInvested), years |-> duration]
    ELSE Num(0)

\* CAGR.  Math.pow(ratio, 1 / duration) is irrational in general: the value
\* ((ratio ^ (1/years)) - 1) * 100 is kept as its ratio and years.  It is the
\* number 0 when the guard fails, and when the power is not finite
cagrOf(totalInvested, finalValue, duration) ==
    IF /\ Gt(totalInvested, Num(0))
       /\ Gt(finalValue, Num(0))
       /\ Gt(ToNumber(duration), Num(0))
       /\ isFinite(Div(finalValue, totalInvested))
    THEN [ratio |-> Div(finalValue, totalInvested), years |-> duration]
    ELSE Num(0)

\* Rule of 72, a non-finite value coerced to 0
doublingTimeOf(in) ==
    IF Gt(effectiveRate(in), Num(0)) /\ isFinite(Div(Num(72), effectiveRate(in)))
    THEN Div(Num(72), effectiveRate(in))
    ELSE Num(0)

\* finalValue - (yearlyData[yearlyData.length-1]?.realValue || 0)
purchasingPowerLossOf(finalValue, yearlyData) ==
    Sub(finalValue,
        OrElse(IF Len(yearlyData) = 0 THEN undefined
               ELSE yearlyData[Len(yearlyData)].realValue,
               Num(0)))

\* the common post-calculation logic and the returned object
Finish(m, in, s) ==
    [totalInvested |-> MathRound(s.totalInvested),
     finalValue |-> MathRound(s.finalValue),
     totalInterest |-> MathRound(Sub(s.finalValue, s.totalInvested)),
     taxPayable |-> MathRound(taxPayableOf(m, in, s.totalInvested, s.finalValue)),
     postTaxValue |->
         MathRound(postTaxValueOf(m, s.finalValue,
                                  taxPayableOf(m, in, s.totalInvested, s.finalValue))),
     yearlyData |-> s.yearlyData,
     monthlyPayment |-> MathRound(s.monthlyPayment),
     roiPercentage |-> s.roiPercentage,
     cagr |-> cagrOf(s.totalInvested, s.finalValue, durationOf(m, in)),
     durationYears |-> durationOf(m, in),
     doublingTime |-> doublingTimeOf(in),
     purchasingPowerLoss |-> purchasingPowerLossOf(s.finalValue, s.yearlyData)]

\* calculateInvestment(mode, inputs); now is the calendar year the call reads
\* when inputs.startYear is absent
calculateInvestment(m, rawInputs, now) ==
    Finish(m, Destructure(rawInputs, now), Strategy(m, Destructure(rawInputs, now)))

---------------------------------------------------------------------------
(* The calls checked: a mode and an input record *)

\* the longest whole duration, in years, of the zero-rate calls
MaxYears == 2

\* the years new Date().getFullYear() may return
ClockYears == {2025, 2026}

Fields == {"initialInvestment", "monthlyContribution", "stepUpRate", "timePeriodYears",
           "interestRate", "compoundingFrequency", "inflationRate", "taxRate",
           "expenseRatio", "startYear", "buyPrice", "sellPrice", "quantity",
           "dividendYield", "propertyPrice", "rentalIncome", "monthlyExpenses",
           "appreciationRate", "annualIncome", "deductions", "targetAmount",
           "currentAge", "retirementAge"}

\* an input record with every property absent
Blank == [f \in Fields |-> undefined]

Nums(S) == {Num(k) : k \in S}

Opt(S) == {undefined} \cup Nums(S)

\* inflation, tax on gains and calendar anchor: all absent, or all supplied
Settings ==
    {[inflationRate |-> undefined, taxRate |-> undefined, startYear |-> undefined],
     [inflationRate |-> Num(100), taxRate |-> Num(50), startYear |-> Num(2024)]}

\* durations at rate 0: whole years 0..MaxYears and the half years 1/2, 3/2
PlainYears == Nums(0..MaxYears) \cup {Frac(1, 2), Frac(3, 2)}

\* rate and duration.  A monthly rate must be a whole number for the compounded
\* balances to stay exact: 1200 % a year is 1 a month, and 24 months of it are
\* the longest the arithmetic holds
Terms ==
    {[interestRate |-> Num(0), timePeriodYears |-> y] : y \in PlainYears}
    \cup {[interestRate |-> Num(1200), timePeriodYears |-> Num(y)] : y \in {0, 1, 2}}

Call(m, in, t, s) ==
    [mode |-> m,
     inputs |-> [in EXCEPT !.interestRate = t.interestRate,
                           !.timePeriodYears = t.timePeriodYears,
                           !.inflationRate = s.inflationRate,
                           !.taxRate = s.taxRate,
                           !.startYear = s.startYear]]

SipCalls ==
    {Call("SIP", [Blank EXCEPT !.initialInvestment = c[1], !.monthlyContribution = c[2],
                               !.stepUpRate = c[3]], c[4], c[5]) :
        c \in Opt({3}) \X Opt({1, 2}) \X Opt({10}) \X Terms \X Settings}

RetirementCalls ==
    {Call("RETIREMENT", [Blank EXCEPT !.initialInvestment = c[1],
                                      !.monthlyContribution = Num(2),
                                      !.currentAge = c[2][1], !.retirementAge = c[2][2]],
          c[3], c[4]) :
        c \in Opt({3})
              \X {<<undefined, undefined>>, <<Num(30), Num(31)>>, <<Num(30), Num(32)>>,
                  <<Num(31), Num(30)>>, <<Num(0), Num(2)>>}
              \X Terms \X Settings}

\* GOAL at rate 0, and at 1200 % the targets the exact balances can hold
GoalCalls ==
    {Call("GOAL", [Blank EXCEPT !.targetAmount = c[1], !.initialInvestment = c[2]],
          [interestRate |-> Num(0), timePeriodYears |-> c[3]], c[4]) :
        c \in Opt({0, 50, 60, 5000}) \X Opt({60}) \X PlainYears \X Settings}
    \cup
    {Call("GOAL", [Blank EXCEPT !.targetAmount = c[1][1], !.initialInvestment = c[1][2]],
          [interestRate |-> Num(1200), timePeriodYears |-> c[1][3]], c[2]) :
        c \in {<<Num(50), Num(0), Num(0)>>, <<Num(50), Num(0), Num(1)>>,
               <<Num(50), Num(0), Num(2)>>, <<Num(50), Num(1), Num(2)>>,
               <<Num(5000), Num(1), Num(0)>>, <<Num(5000), Num(1), Num(1)>>,
               <<Num(5000), Num(0), Num(1)>>, <<Num(5000), Num(2), Num(1)>>,
               <<undefined, Num(1), Num(2)>>, <<undefined, Num(1), Num(0)>>,
               <<Num(0), Num(1), Num(1)>>, <<Num(0), Num(1), Num(0)>>}
              \X Settings}

LumpsumCalls ==
    {Call(c[1][1], [Blank EXCEPT !.initialInvestment = c[2],
                                 !.compoundingFrequency = c[1][2]], c[3], c[4]) :
        c \in {<<"LUMPSUM", undefined>>, <<"LUMPSUM", Num(12)>>, <<"COMPOUND", undefined>>,
               <<"COMPOUND", Num(0)>>, <<"COMPOUND", Num(2)>>, <<"COMPOUND", Num(12)>>}
              \X Opt({100}) \X Terms \X Settings}
    \cup
    {Call(m, [Blank EXCEPT !.initialInvestment = Num(10000),
                           !.compoundingFrequency = Num(1)],
          [interestRate |-> Num(8), timePeriodYears |-> Num(1)], s) :
        m \in {"LUMPSUM", "COMPOUND"}, s \in Settings}

\* LOAN at rate 0, and at 1200 % the principals the exact schedule can hold
LoanCalls ==
    {Call("LOAN", [Blank EXCEPT !.initialInvestment = c[1]],
          [interestRate |-> Num(0), timePeriodYears |-> c[2]], c[3]) :
        c \in Opt({0, 5, 1200}) \X PlainYears \X Settings}
    \cup
    {Call("LOAN", [Blank EXCEPT !.initialInvestment = c[1][1], !.expenseRatio = c[3]],
          [interestRate |-> Num(1200), timePeriodYears |-> c[1][2]], c[2]) :
        c \in {<<Num(0), Num(1)>>, <<Num(5), Num(0)>>, <<Num(5), Num(1)>>,
               <<Num(5), Num(2)>>, <<Num(7), Num(2)>>, <<Num(1200), Num(0)>>,
               <<Num(1200), Num(1)>>, <<Num(1000), Num(1)>>}
              \X Settings \X Opt({1200})}

StockCalls ==
    {Call("STOCK", [Blank EXCEPT !.quantity = c[1], !.buyPrice = c[2], !.sellPrice = c[3],
                                 !.dividendYield = c[4]],
          [interestRate |-> Num(0), timePeriodYears |-> c[5]], c[6]) :
        c \in Opt({3}) \X {Frac(1, 2), Num(10)} \X {Num(1), Num(15)} \X Opt({5})
              \X PlainYears \X Settings}

PropertyCalls ==
    {Call("PROPERTY", [Blank EXCEPT !.propertyPrice = c[1], !.rentalIncome = c[2],
                                    !.monthlyExpenses = Num(3), !.appreciationRate = c[3]],
          [interestRate |-> Num(0), timePeriodYears |-> c[4]], c[5]) :
        c \in Opt({1000}) \X Opt({10}) \X Opt({4}) \X PlainYears \X Settings}

RoiCalls ==
    {Call("ROI", [Blank EXCEPT !.initialInvestment = c[1], !.sellPrice = c[2]],
          [interestRate |-> Num(0), timePeriodYears |-> c[3]], c[4]) :
        c \in Opt({1000}) \X Opt({0, 500, 1500}) \X PlainYears \X Settings}

TaxCalls ==
    {[mode |-> "TAX",
      inputs |-> [Blank EXCEPT !.annualIncome = c[1], !.deductions = c[2], !.taxRate = c[3],
                               !.timePeriodYears = c[4], !.interestRate = Num(0),
                               !.startYear = c[5]]] :
        c \in Opt({10, 60000}) \X Opt({5, 5000}) \X Opt({5, 15}) \X Nums(0..MaxYears)
              \X Opt({2024})}

\* a rate, an expense ratio and a duration: the ratio below, at and above the rate
ExpenseTerms ==
    {[interestRate |-> Num(t[1]), expenseRatio |-> Num(t[2]), timePeriodYears |-> Num(t[3])] :
        t \in {<<2400, 1200, 1>>, <<2400, 1200, 2>>, <<1200, 1200, 2>>, <<1200, 2400, 1>>,
               <<0, 1200, 1>>, <<1200, 0, 1>>}}

\* the growth modes with an expense ratio supplied
ExpenseCalls ==
    {Call(c[1], [Blank EXCEPT !.initialInvestment = Num(1), !.monthlyContribution = Num(1),
                              !.targetAmount = Num(5000),
                              !.expenseRatio = c[2].expenseRatio], c[2], c[3]) :
        c \in {"SIP", "RETIREMENT", "GOAL", "LUMPSUM", "COMPOUND"} \X ExpenseTerms
              \X Settings}

Calls ==
    SipCalls \cup RetirementCalls \cup GoalCalls \cup LumpsumCalls \cup LoanCalls
    \cup StockCalls \cup PropertyCalls \cup RoiCalls \cup TaxCalls \cup ExpenseCalls

---------------------------------------------------------------------------
(* The state machine: a call is set up, the engine is applied to it *)

\* no result yet
null == [isNull |-> TRUE]

\* the rest of the App state as the component is mounted
Idle ==
    /\ isCalculating = FALSE
    /\ progress = 0
    /\ aiData = null
    /\ calls = <<>>
    /\ reply = null

Init ==
    \E c \in Calls :
        /\ mode = c.mode
        /\ inputs = c.inputs
        /\ result = null
        /\ build = "key"
        /\ Idle

\* const calcResult = calculateInvestment(mode, inputs)
Calculate ==
    \E now \in ClockYears :
        /\ result' = calculateInvestment(mode, inputs, now)
        /\ UNCHANGED <<mode, inputs, isCalculating, progress, aiData, calls, build, reply>>

Next == Calculate

Spec == Init /\ [][Next]_vars

---------------------------------------------------------------------------
(* The engine called with a record that lacks a property *)

\* a record with every property supplied, at a rate and over the years of t
FullInputs(t) ==
    [Blank EXCEPT !.initialInvestment = Num(3), !.monthlyContribution = Num(1),
                  !.stepUpRate = Num(10), !.timePeriodYears = Num(t[2]),
                  !.interestRate = Num(t[1]), !.compoundingFrequency = Num(2),
                  !.inflationRate = Num(100), !.taxRate = Num(50),
                  !.expenseRatio = Num(0), !.startYear = Num(2024),
                  !.buyPrice = Num(10), !.sellPrice = Num(15), !.quantity = Num(3),
                  !.dividendYield = Num(5), !.propertyPrice = Num(1000),
                  !.rentalIncome = Num(10), !.monthlyExpenses = Num(3),
                  !.appreciationRate = Num(4), !.annualIncome = Num(60000),
                  !.deductions = Num(5000), !.targetAmount = Num(5000),
                  !.currentAge = Num(30), !.retirementAge = Num(31)]

\* the rate and the years of a full record: GOAL, whose million of a default
\* target is beyond the exact balances at 1200 %, stays at rate 0
PartialTerms(m) ==
    IF m = "GOAL" THEN {<<0, 1>>, <<0, 2>>} ELSE {<<0, 1>>, <<0, 2>>, <<1200, 1>>}

\* every mode, on a full record and on the record less one property other
\* than timePeriodYears
PartialCalls ==
    {[mode |-> m, inputs |-> FullInputs(t)] : m \in Modes, t \in {<<0, 1>>, <<0, 2>>}}
    \cup
    UNION {{[mode |-> m, inputs |-> [FullInputs(t) EXCEPT ![f] = undefined]] :
               t \in PartialTerms(m), f \in Fields \ {"timePeriodYears"}} : m \in Modes}

InitPartial ==
    \E c \in PartialCalls :
        /\ mode = c.mode
        /\ inputs = c.inputs
        /\ result = null
        /\ build = "key"
        /\ Idle

SpecPartial == InitPartial /\ [][Next]_vars

---------------------------------------------------------------------------
(* The advisory service: analyzeInvestment (services/geminiService) *)

JsString(s) == [type |-> "string", s |-> s]

JsNumber(k) == [type |-> "number", n |-> k]

JsArray(items) == [type |-> "array", items |-> items]

JsObject(props) == [type |-> "object", props |-> props]

\* the object returned when process.env.API_KEY is empty
KeyMissingNotice ==
    JsObject([summary |-> JsString("API Key not configured. Please add your Gemini API Key to enable AI insights."),
              recommendations |-> JsArray(<<JsString("Configure API Key"),
                                            JsString("Consult a financial advisor")>>),
              riskAssessment |-> JsString("Unknown")])

\* the object returned by the catch block
Unavailable ==
    JsObject([summary |-> JsString("Could not generate AI analysis at this time."),
              recommendations |-> JsArray(<<JsString("Check your internet connection"),
                                            JsString("Try again later")>>),
              riskAssessment |-> JsString("Unavailable")])

\* a reply of the shape the system instruction asks for
GoodText == "{\"summary\":\"ok\",\"recommendations\":[\"save\"],\"riskAssessment\":\"low\"}"

\* a reply with the three keys and other types under them
WrongTypesText == "{\"summary\":7,\"recommendations\":\"none\",\"riskAssessment\":\"low\"}"

\* the texts response.text may hold: none, prose, and JSON of several shapes
ServiceTexts == {"", "Sorry, I cannot help with that.", "{}", "[]", "7", "null",
                 GoodText, WrongTypesText}

\* JSON.parse: the value of a JSON text, a SyntaxError for any other text
JSONParse(text) ==
    CASE text = "{}" -> [threw |-> FALSE, value |-> JsObject(<<>>)]
      [] text = "[]" -> [threw |-> FALSE, value |-> JsArray(<<>>)]
      [] text = "7" -> [threw |-> FALSE, value |-> JsNumber(7)]
      [] text = "null" -> [threw |-> FALSE, value |-> null]
      [] text = GoodText ->
             [threw |-> FALSE,
              value |-> JsObject([summary |-> JsString("ok"),
                                  recommendations |-> JsArray(<<JsString("save")>>),
                                  riskAssessment |-> JsString("low")])]
      [] text = WrongTypesText ->
             [threw |-> FALSE,
              value |-> JsObject([summary |-> JsNumber(7),
                                  recommendations |-> JsString("none"),
                                  riskAssessment |-> JsString("low")])]
      [] OTHER -> [threw |-> TRUE, value |-> null]

\* what ai.models.generateContent does: it throws, or it returns a response
\* with a text
Responses ==
    {[kind |-> "error", text |-> ""]} \cup {[kind |-> "text", text |-> t] : t \in ServiceTexts}

\* how the page was built: process.env.API_KEY replaced by a key, replaced by
\* nothing, or left in the bundle, where the browser has no process object
Builds == {"key", "noKey", "noProcess"}

\* the promise analyzeInvestment returns, once settled.  The test of
\* process.env.API_KEY stands outside the try block: a ReferenceError there
\* rejects the promise; everything after it is caught
analyzeInvestment(b, response) ==
    IF b = "noProcess" THEN [rejected |-> TRUE, value |-> null]
    ELSE IF b = "noKey" THEN [rejected |-> FALSE, value |-> KeyMissingNotice]
    ELSE IF response.kind = "error" THEN [rejected |-> FALSE, value |-> Unavailable]
    ELSE IF response.text = "" THEN [rejected |-> FALSE, value |-> Unavailable]
    ELSE IF JSONParse(response.text).threw THEN [rejected |-> FALSE, value |-> Unavailable]
    ELSE [rejected |-> FALSE, value |-> JSONParse(response.text).value]

---------------------------------------------------------------------------
(* The App component: Calculate, the mode buttons, Reset and the inputs *)

\* the most handleCalculate invocations held at a time
MaxCalls == 2

\* the modes whose buttons are clicked
UiModes == {"SIP", "LOAN", "TAX"}

\* defaultInputs, with the rate (8), the time period (10) and the retirement
\* age (60) brought down to what the exact arithmetic holds; startYear is the
\* calendar year in which the module was loaded
defaultInputs ==
    [Blank EXCEPT !.initialInvestment = Num(10000), !.monthlyContribution = Num(500),
                  !.stepUpRate = Num(5), !.timePeriodYears = Num(1),
                  !.interestRate = Num(0), !.compoundingFrequency = Num(1),
                  !.inflationRate = Num(3), !.taxRate = Num(15),
                  !.expenseRatio = Num(0), !.startYear = Num(2025),
                  !.buyPrice = Num(100), !.sellPrice = Num(150), !.quantity = Num(50),
                  !.dividendYield = Num(2), !.propertyPrice = Num(500000),
                  !.rentalIncome = Num(2000), !.monthlyExpenses = Num(500),
                  !.appreciationRate = Num(4), !.annualIncome = Num(60000),
                  !.deductions = Num(5000), !.targetAmount = Num(1000000),
                  !.currentAge = Num(30), !.retirementAge = Num(31)]

AppInit ==
    /\ mode = "SIP"
    /\ inputs = defaultInputs
    /\ result = null
    /\ build \in Builds
    /\ Idle

RemoveAt(s, i) == SubSeq(s, 1, i - 1) \o SubSeq(s, i + 1, Len(s))

\* a click on Calculate that the disabled button does not stop
ClickCalculateAlways ==
    /\ Len(calls) < MaxCalls
    /\ \E now \in ClockYears :
           calls' = Append(calls, [pc |-> "delay",
                                   calcResult |-> calculateInvestment(mode, inputs, now)])
    /\ isCalculating' = TRUE
    /\ progress' = 0
    /\ result' = null
    /\ aiData' = null
    /\ reply' = null
    /\ UNCHANGED <<mode, inputs, build>>

\* handleCalculate up to its first await: the button is disabled while
\* isCalculating; the interval is started, the engine is called with the mode
\* and inputs of the click
ClickCalculate ==
    /\ ~isCalculating
    /\ Len(calls) < MaxCalls
    /\ \E now \in ClockYears :
           calls' = Append(calls, [pc |-> "delay",
                                   calcResult |-> calculateInvestment(mode, inputs, now)])
    /\ isCalculating' = TRUE
    /\ progress' = 0
    /\ result' = null
    /\ aiData' = null
    /\ reply' = null
    /\ UNCHANGED <<mode, inputs, build>>

\* the interval of invocation i fires: setProgress(prev => prev >= 90 ? 90 : prev + 10)
Tick(i) ==
    /\ i \in 1..Len(calls)
    /\ progress' = IF progress >= 90 THEN 90 ELSE progress + 10
    /\ UNCHANGED <<mode, inputs, result, isCalculating, aiData, calls, build, reply>>

\* the rest of the try block once the advisory promise p has settled, and
\* the finally block: setAiData on fulfilment, nothing but a log on rejection
Settle(i, p) ==
    /\ aiData' = IF p.rejected THEN aiData ELSE p.value
    /\ calls' = RemoveAt(calls, i)
    /\ isCalculating' = FALSE
    /\ progress' = 100

\* the 600 ms are over in a build where analyzeInvestment settles without
\* calling the service
DelayElapsedSettled(i) ==
    /\ i \in 1..Len(calls)
    /\ calls[i].pc = "delay"
    /\ build # "key"
    /\ result' = calls[i].calcResult
    /\ Settle(i, analyzeInvestment(build, null))
    /\ UNCHANGED <<mode, inputs, build, reply>>

\* the 600 ms are over: setProgress(100), setResult(calcResult), and the
\* request to the service is sent
DelayElapsedRequest(i) ==
    /\ i \in 1..Len(calls)
    /\ calls[i].pc = "delay"
    /\ build = "key"
    /\ progress' = 100
    /\ result' = calls[i].calcResult
    /\ calls' = [calls EXCEPT ![i].pc = "advise"]
    /\ UNCHANGED <<mode, inputs, isCalculating, aiData, build, reply>>

\* the service answers, or the request fails
ServiceResponds(i) ==
    /\ i \in 1..Len(calls)
    /\ calls[i].pc = "advise"
    /\ \E r \in Responses :
           /\ reply' = r
           /\ Settle(i, analyzeInvestment(build, r))
    /\ UNCHANGED <<mode, inputs, result, build>>

\* a mode button: setMode(item.mode); setResult(null)
SelectMode ==
    /\ \E m \in UiModes : mode' = m
    /\ result' = null
    /\ UNCHANGED <<inputs, isCalculating, progress, aiData, calls, build, reply>>

\* resetInputs
ResetInputs ==
    /\ inputs' = defaultInputs
    /\ result' = null
    /\ aiData' = null
    /\ UNCHANGED <<mode, isCalculating, progress, calls, build, reply>>

\* handleInputChange on the time period
InputChange ==
    /\ \E y \in {1, 2} : inputs' = [inputs EXCEPT !.timePeriodYears = Num(y)]
    /\ UNCHANGED <<mode, result, isCalculating, progress, aiData, calls, build, reply>>

AppNext ==
    \/ ClickCalculate
    \/ \E i \in 1..MaxCalls : Tick(i)
    \/ \E i \in 1..MaxCalls : DelayElapsedSettled(i)
    \/ \E i \in 1..MaxCalls : DelayElapsedRequest(i)
    \/ \E i \in 1..MaxCalls : ServiceResponds(i)
    \/ SelectMode
    \/ ResetInputs
    \/ InputChange

AppSpec == AppInit /\ [][AppNext]_vars

\* the timers of the browser fire; nothing makes the service answer
AppLiveSpec ==
    /\ AppInit
    /\ [][AppNext]_vars
    /\ WF_vars(\E i \in 1..MaxCalls : DelayElapsedSettled(i))
    /\ WF_vars(\E i \in 1..MaxCalls : DelayElapsedRequest(i))

---------------------------------------------------------------------------
(* Properties of the result.  They are read in states where the engine has  *)
(* returned; Args is the input record after destructuring.                  *)

Returned == result # null

Args == Destructure(inputs, 2025)

Rows == result.yearlyData

LastRow == Rows[Len(Rows)]

\* |a - b| <= k for finite a, b
Within(a, b, k) ==
    /\ isFinite(a)
    /\ isFinite(b)
    /\ Le(Sub(a, b), Num(k))
    /\ Le(Sub(b, a), Num(k))

RowNumbers(row) == {row.invested, row.interest, row.total, row.realValue}

\* the monetary fields of the result and of its rows
MonetaryFields ==
    {result.totalInvested, result.finalValue, result.totalInterest, result.taxPayable,
     result.postTaxValue, result.monthlyPayment, result.purchasingPowerLoss}
    \cup UNION {RowNumbers(Rows[i]) : i \in 1..Len(Rows)}

\* C1: for every mode and input the returned totalInterest equals the returned
\* finalValue minus the returned totalInvested, all three as rounded.
C1_InterestIsDifference ==
    Returned =>
        result.totalInterest = Sub(result.finalValue, result.totalInvested)

\* C2: with timePeriodYears = 0 every numeric field of the result is finite,
\* whatever the mode.
C2_ZeroDurationFinite ==
    (Returned /\ inputs.timePeriodYears = Num(0)) =>
        \A x \in MonetaryFields \cup {result.roiPercentage, result.doublingTime} :
            isFinite(x)

\* C3: a LOAN at interestRate 0 with principal P > 0 over D >= 1 whole years
\* has monthlyPayment P/N (N = 12 D) and, in every row i, finite fields with
\* total = P - (P/N)*12*i, invested = P - total and interest = 0.
C3_ZeroRateLoanSchedule ==
    (/\ Returned
     /\ mode = "LOAN"
     /\ inputs.interestRate = Num(0)
     /\ Gt(Args.initialInvestment, Num(0))
     /\ IsInteger(inputs.timePeriodYears)
     /\ inputs.timePeriodYears.n >= 1) =>
        LET P == Args.initialInvestment
            emi == Div(P, Num(12 * inputs.timePeriodYears.n))
            Balance(i) == Sub(P, Mul(emi, Num(12 * i)))
        IN  /\ result.monthlyPayment = MathRound(emi)
            /\ Len(Rows) = inputs.timePeriodYears.n
            /\ \A i \in 1..Len(Rows) :
                   /\ \A x \in RowNumbers(Rows[i]) : isFinite(x)
                   /\ Rows[i].total = MathRound(Balance(i))
                   /\ Rows[i].invested = MathRound(Sub(P, Balance(i)))
                   /\ Rows[i].interest = Num(0)

\* C4 as claimed: outside TAX mode the number of rows equals durationYears,
\* and TAX mode has exactly one row.
C4_RowsEqualDuration ==
    Returned =>
        IF mode = "TAX" THEN Len(Rows) = 1
        ELSE Num(Len(Rows)) = result.durationYears

\* C4 as amended: outside TAX mode the number of rows is the whole part of the
\* effective duration (the duration itself when it is a whole number of
\* years, nothing for the part of a year); TAX mode has exactly one row.
C4_RowsAreWholeYears ==
    Returned =>
        IF mode = "TAX" THEN Len(Rows) = 1
        ELSE /\ isFinite(result.durationYears)
             /\ result.durationYears.n >= 0
             /\ Len(Rows) = result.durationYears.n \div result.durationYears.d
             /\ \A i \in 1..Len(Rows) : Rows[i].year = Num(i)

\* C4 happens: a year and a half of contributions leave one row
C4_Witness ==
    /\ Returned
    /\ mode = "SIP"
    /\ result.durationYears = Frac(3, 2)
    /\ Len(Rows) = 1

\* i: a twelfth of the annual rate net of the expense ratio, never negative
MonthlyGrowthRate ==
    Div(Div(MathMax(Num(0), Sub(Args.interestRate, Args.expenseRatio)), Num(100)),
        Num(12))

\* GOAL: initialInvestment * (1 + i)^n, the lump sum compounded monthly
LumpsumCompounded ==
    Mul(Args.initialInvestment,
        MathPow(Add(Num(1), MonthlyGrowthRate), Mul(Args.timePeriodYears, Num(12))))

TargetOrMillion ==
    IF inputs.targetAmount \in {undefined, Num(0)} THEN Num(1000000)
    ELSE inputs.targetAmount

GoalToSolve ==
    /\ mode = "GOAL"
    /\ Truthy(inputs.targetAmount)
    /\ IsInteger(Mul(inputs.timePeriodYears, Num(12)))
    /\ inputs.timePeriodYears.n > 0
    /\ Gt(Sub(inputs.targetAmount, LumpsumCompounded), Num(0))

\* C6: in GOAL mode with n > 0 months and a positive remaining target the
\* month-by-month schedule of the solved payment PMT ends at the target, and
\* totalInvested = initialInvestment + n * PMT.
C6_SolvedPaymentReachesTarget ==
    (Returned /\ GoalToSolve) =>
        /\ result.finalValue = MathRound(inputs.targetAmount)
        /\ result.totalInvested =
               MathRound(Add(Args.initialInvestment,
                             Mul(Mul(inputs.timePeriodYears, Num(12)),
                                 GoalMonthlyPayment(mode, Args))))

\* C6 happens: a target reached by contributions that earn interest
C6_Witness ==
    /\ Returned
    /\ GoalToSolve
    /\ Gt(Args.interestRate, Num(0))
    /\ Gt(result.monthlyPayment, Num(0))
    /\ Len(Rows) >= 1

\* C7: with a positive remaining target, SIP mode run on the same inputs with
\* monthlyContribution set to the monthlyPayment GOAL mode returned ends at a
\* finalValue within rounding (one unit) of targetAmount.
C7_GoalPaymentFedToSip ==
    (/\ Returned
     /\ mode = "GOAL"
     /\ Gt(Sub(Default(inputs.targetAmount, Num(0)), LumpsumCompounded), Num(0))) =>
        Within(calculateInvestment(
                   "SIP", [inputs EXCEPT !.monthlyContribution = result.monthlyPayment],
                   2025).finalValue,
               inputs.targetAmount, 1)

\* LOAN at a positive rate with principal P > 0 over D >= 1 whole years
LoanAtInterest ==
    /\ mode = "LOAN"
    /\ Gt(inputs.interestRate, Num(0))
    /\ Gt(Args.initialInvestment, Num(0))
    /\ IsInteger(inputs.timePeriodYears)
    /\ inputs.timePeriodYears.n >= 1

\* EMI * N - P with EMI = P r (1 + r)^N / ((1 + r)^N - 1), r the nominal
\* monthly rate and N = 12 D
LoanTotalInterest ==
    LET P == Args.initialInvestment
        r == Div(Div(inputs.interestRate, Num(12)), Num(100))
        N == Mul(inputs.timePeriodYears, Num(12))
        g == MathPow(Add(Num(1), r), N)
    IN  Sub(Mul(Div(Mul(Mul(P, r), g), Sub(g, Num(1))), N), P)

\* C8: such a loan has one row a year; the last row has total 0, invested P
\* and cumulative interest EMI*N - P, which is totalInterest; in every row
\* invested + total is P within rounding.
C8_LoanPaidOff ==
    (Returned /\ LoanAtInterest) =>
        /\ Len(Rows) = inputs.timePeriodYears.n
        /\ LastRow.total = Num(0)
        /\ LastRow.invested = MathRound(Args.initialInvestment)
        /\ LastRow.interest = MathRound(LoanTotalInterest)
        /\ LastRow.interest = result.totalInterest
        /\ \A i \in 1..Len(Rows) :
               Within(Add(Rows[i].invested, Rows[i].total), Args.initialInvestment, 1)

\* C8 happens: a two-year loan at interest, part of it still owed after year 1
C8_Witness ==
    /\ Returned
    /\ LoanAtInterest
    /\ Len(Rows) = 2
    /\ Gt(Rows[1].total, Num(0))
    /\ Gt(result.totalInterest, Num(0))

\* C9: every monetary field of the result and of its rows is a whole number.
C9_MonetaryFieldsWhole ==
    Returned => \A x \in MonetaryFields : IsInteger(x)

\* C10: purchasingPowerLoss is finalValue less the last row's realValue when
\* there are rows, and 0 when there are none.
C10_PurchasingPowerLoss ==
    Returned =>
        result.purchasingPowerLoss =
            IF Len(Rows) = 0 THEN Num(0)
            ELSE Sub(Strategy(mode, Args).finalValue, LastRow.realValue)

\* C11: in ROI mode, for initialInvestment >= 0 and a supplied sellPrice >= 0,
\* zero included, totalInvested = initialInvestment, finalValue = sellPrice
\* and roiPercentage = (sellPrice - initialInvestment) / initialInvestment * 100
\* when initialInvestment > 0, and 0 when initialInvestment = 0.
C11_RoiOfSalePrice ==
    (/\ Returned
     /\ mode = "ROI"
     /\ inputs.sellPrice # undefined
     /\ Le(Num(0), inputs.sellPrice)
     /\ Le(Num(0), Args.initialInvestment)) =>
        /\ result.totalInvested = MathRound(Args.initialInvestment)
        /\ result.finalValue = MathRound(inputs.sellPrice)
        /\ result.roiPercentage =
               IF Gt(Args.initialInvestment, Num(0))
               THEN Mul(Div(Sub(inputs.sellPrice, Args.initialInvestment),
                            Args.initialInvestment), Num(100))
               ELSE Num(0)

\* TAX: max(0, annualIncome - deductions) * taxRate / 100, absent fields 0
TaxDue ==
    Mul(MathMax(Num(0), Sub(Default(inputs.annualIncome, Num(0)),
                            Default(inputs.deductions, Num(0)))),
        Div(Args.taxRate, Num(100)))

\* C12: in TAX mode the tax is max(0, annualIncome - deductions) * taxRate / 100,
\* finalValue = annualIncome - tax, taxPayable = tax and postTaxValue =
\* finalValue; the single row has year 1 and label startYear (the current
\* year when startYear is absent); deductions above the income give tax 0.
C12_FlatTax ==
    (Returned /\ mode = "TAX") =>
        /\ result.totalInvested = MathRound(Default(inputs.annualIncome, Num(0)))
        /\ result.finalValue = MathRound(Sub(Default(inputs.annualIncome, Num(0)), TaxDue))
        /\ result.taxPayable = MathRound(TaxDue)
        /\ result.postTaxValue = result.finalValue
        /\ Len(Rows) = 1
        /\ Rows[1].year = Num(1)
        /\ IF inputs.startYear = undefined THEN Rows[1].label \in Nums(ClockYears)
           ELSE Rows[1].label = inputs.startYear
        /\ Rows[1].interest = TaxDue
        /\ Rows[1].total = Sub(Default(inputs.annualIncome, Num(0)), TaxDue)
        /\ (Le(Default(inputs.annualIncome, Num(0)), Default(inputs.deductions, Num(0))) =>
               /\ result.taxPayable = Num(0)
               /\ result.finalValue = MathRound(Default(inputs.annualIncome, Num(0))))

\* C12 happens: income 60000, deductions 5000 at 15 % leave 51750 after 8250
C12_Witness ==
    /\ Returned
    /\ mode = "TAX"
    /\ inputs.annualIncome = Num(60000)
    /\ inputs.deductions = Num(5000)
    /\ inputs.taxRate = Num(15)
    /\ inputs.startYear = Num(2024)
    /\ result.taxPayable = Num(8250)
    /\ result.finalValue = Num(51750)
    /\ result.postTaxValue = Num(51750)
    /\ Rows[1].label = Num(2024)

\* the totals the strategy of the mode leaves, before rounding
Totals == Strategy(mode, Args)

\* max(0, finalValue - totalInvested) * taxRate / 100
TaxOnGain ==
    Mul(MathMax(Num(0), Sub(Totals.finalValue, Totals.totalInvested)),
        Div(Args.taxRate, Num(100)))

\* C13: outside LOAN and TAX mode taxPayable = max(0, finalValue -
\* totalInvested) * taxRate / 100, never negative, and postTaxValue =
\* finalValue - taxPayable; for LOAN taxPayable = 0 and postTaxValue =
\* finalValue whatever taxRate is.
C13_TaxOnGain ==
    Returned =>
        IF mode = "LOAN"
        THEN /\ result.taxPayable = Num(0)
             /\ result.postTaxValue = result.finalValue
        ELSE mode # "TAX" =>
                 /\ result.taxPayable = MathRound(TaxOnGain)
                 /\ Le(Num(0), result.taxPayable)
                 /\ result.postTaxValue = MathRound(Sub(Totals.finalValue, TaxOnGain))
                 /\ Within(result.postTaxValue,
                           Sub(result.finalValue, result.taxPayable), 1)

\* C13 happens: a sale at half the cost, taxed at 50 %, owes no tax
C13_Witness ==
    /\ Returned
    /\ mode = "ROI"
    /\ inputs.taxRate = Num(50)
    /\ inputs.initialInvestment = Num(1000)
    /\ inputs.sellPrice = Num(500)
    /\ result.taxPayable = Num(0)
    /\ result.postTaxValue = Num(500)

\* the totals and the effective duration are all positive
Grown ==
    /\ Gt(Totals.totalInvested, Num(0))
    /\ Gt(Totals.finalValue, Num(0))
    /\ Gt(result.durationYears, Num(0))

\* C14: cagr is finite; it is 0 whenever totalInvested <= 0, finalValue <= 0
\* or the effective duration <= 0, and otherwise it is
\* ((finalValue / totalInvested)^(1 / duration) - 1) * 100 over the effective
\* duration, held as the ratio and the years of that expression.
C14_Cagr ==
    Returned =>
        IF Grown
        THEN /\ result.cagr = [ratio |-> Div(Totals.finalValue, Totals.totalInvested),
                               years |-> result.durationYears]
             /\ isFinite(result.cagr.ratio)
             /\ isFinite(result.cagr.years)
             /\ (mode = "RETIREMENT" /\ inputs.currentAge # undefined
                     /\ inputs.retirementAge # undefined /\ Truthy(inputs.currentAge) =>
                     result.cagr.years =
                         MathMax(Num(1), Sub(inputs.retirementAge, inputs.currentAge)))
        ELSE result.cagr = Num(0)

\* C14 happens: a retirement plan whose rate is taken over the two years
\* between the ages, not over the time period of the inputs
C14_Witness ==
    /\ Returned
    /\ mode = "RETIREMENT"
    /\ inputs.currentAge = Num(30)
    /\ inputs.retirementAge = Num(32)
    /\ inputs.timePeriodYears = Num(0)
    /\ Gt(inputs.interestRate, Num(0))
    /\ result.cagr # Num(0)
    /\ result.cagr.years = Num(2)
    /\ Gt(result.cagr.ratio, Num(1))

\* max(0, interestRate - expenseRatio), an absent expense ratio being 0
NetRate == MathMax(Num(0), Sub(inputs.interestRate, Default(inputs.expenseRatio, Num(0))))

GrowthModes == {"SIP", "RETIREMENT", "GOAL", "LUMPSUM", "COMPOUND"}

\* the returned fields other than doublingTime
LessDoublingTime(res) ==
    [f \in DOMAIN res \ {"doublingTime"} |-> res[f]]

\* C15: the growth modes (SIP, RETIREMENT, GOAL, LUMPSUM, COMPOUND) and
\* doublingTime use max(0, interestRate - expenseRatio): the result is that of
\* the same call at that rate with no expense ratio, and doublingTime is 72
\* over that rate, 0 when the rate is 0; LOAN's payment and schedule are
\* those of the same call without the expense ratio.
C15_EffectiveRate ==
    Returned =>
        /\ result.doublingTime =
               IF Gt(NetRate, Num(0)) THEN Div(Num(72), NetRate) ELSE Num(0)
        /\ mode \in GrowthModes =>
               \E now \in ClockYears :
                   result = calculateInvestment(
                                mode, [inputs EXCEPT !.interestRate = NetRate,
                                                     !.expenseRatio = undefined], now)
        /\ mode = "LOAN" =>
               \E now \in ClockYears :
                   LessDoublingTime(result) =
                       LessDoublingTime(calculateInvestment(
                           mode, [inputs EXCEPT !.expenseRatio = undefined], now))

\* C15 happens: an expense ratio above the rate leaves the contributions
\* without growth
C15_Witness ==
    /\ Returned
    /\ mode = "SIP"
    /\ inputs.interestRate = Num(1200)
    /\ inputs.expenseRatio = Num(2400)
    /\ result.doublingTime = Num(0)
    /\ result.finalValue = Num(13)
    /\ result.totalInterest = Num(0)

\* C16: durationYears is timePeriodYears in every mode but RETIREMENT; in
\* RETIREMENT mode, whenever currentAge and retirementAge are both supplied,
\* whatever their values (currentAge = 0 included), it is
\* max(1, retirementAge - currentAge).
C16_EffectiveDuration ==
    Returned =>
        IF /\ mode = "RETIREMENT"
           /\ inputs.currentAge # undefined
           /\ inputs.retirementAge # undefined
        THEN result.durationYears =
                 MathMax(Num(1), Sub(inputs.retirementAge, inputs.currentAge))
        ELSE result.durationYears = inputs.timePeriodYears

\* SIP / RETIREMENT: monthlyContribution * (1 + stepUpRate/100)^(k-1), the
\* contribution of every month of year k
ContributionInYear(k) ==
    Mul(Args.monthlyContribution,
        MathPow(Add(Num(1), Div(Args.stepUpRate, Num(100))), Num(k - 1)))

\* initialInvestment and the contributions of years 1..k
RECURSIVE InvestedAfter(_)
InvestedAfter(k) ==
    IF k = 0 THEN Args.initialInvestment
    ELSE Add(InvestedAfter(k - 1), Mul(Num(12), ContributionInYear(k)))

\* a whole, non-negative effective duration
WholeYears == IsInteger(result.durationYears) /\ result.durationYears.n >= 0

\* C17: in SIP and RETIREMENT mode at effective rate 0, over a whole number
\* of years, finalValue = totalInvested = initialInvestment + all the monthly
\* contributions made, every row has interest 0, and totalInterest = 0.
C17_NoGrowthAtRateZero ==
    (/\ Returned
     /\ mode \in {"SIP", "RETIREMENT"}
     /\ NetRate = Num(0)
     /\ WholeYears) =>
        /\ Totals.finalValue = InvestedAfter(result.durationYears.n)
        /\ Totals.totalInvested = InvestedAfter(result.durationYears.n)
        /\ result.finalValue = MathRound(InvestedAfter(result.durationYears.n))
        /\ result.totalInvested = result.finalValue
        /\ result.totalInterest = Num(0)
        /\ \A k \in 1..Len(Rows) : Rows[k].interest = Num(0)

\* C17 happens: two years of stepped-up contributions on a lump sum that earn
\* nothing
C17_Witness ==
    /\ Returned
    /\ mode = "SIP"
    /\ NetRate = Num(0)
    /\ inputs.initialInvestment = Num(3)
    /\ inputs.monthlyContribution = Num(1)
    /\ inputs.stepUpRate = Num(10)
    /\ Len(Rows) = 2
    /\ result.finalValue = Num(28)
    /\ result.totalInvested = Num(28)

\* what twelve monthly payments of 1 are worth at the end of their year:
\* ((1 + i)^12 - 1) / i, and 12 at rate 0
YearOfPayments ==
    IF MonthlyGrowthRate = Num(0) THEN Num(12)
    ELSE Div(Sub(MathPow(Add(Num(1), MonthlyGrowthRate), Num(12)), Num(1)),
             MonthlyGrowthRate)

\* the balance at the end of year k when every month of year j is paid
\* ContributionInYear(j) after the month's interest
RECURSIVE BalanceAfter(_)
BalanceAfter(k) ==
    IF k = 0 THEN Args.initialInvestment
    ELSE Add(Mul(BalanceAfter(k - 1), MathPow(Add(Num(1), MonthlyGrowthRate), Num(12))),
             Mul(ContributionInYear(k), YearOfPayments))

\* C18: in SIP and RETIREMENT mode every month of year k is paid
\* monthlyContribution * (1 + stepUpRate/100)^(k-1): the row of year k holds
\* the invested total and the balance of contributions stepped up at the
\* 12-month boundaries only, from the first month of the next year; over
\* whole years the totals are those of the last year.
C18_StepUpAtYearEnd ==
    (Returned /\ mode \in {"SIP", "RETIREMENT"}) =>
        /\ \A k \in 1..Len(Rows) :
               /\ Rows[k].invested = MathRound(InvestedAfter(k))
               /\ Rows[k].total = MathRound(BalanceAfter(k))
        /\ WholeYears =>
               /\ Totals.totalInvested = InvestedAfter(result.durationYears.n)
               /\ Totals.finalValue = BalanceAfter(result.durationYears.n)

\* C18 happens: a second year paid at the stepped-up level, with interest
C18_Witness ==
    /\ Returned
    /\ mode = "SIP"
    /\ Gt(NetRate, Num(0))
    /\ inputs.monthlyContribution = Num(1)
    /\ inputs.stepUpRate = Num(10)
    /\ Len(Rows) = 2
    /\ Rows[1].invested = Num(12)
    /\ Rows[2].invested = Num(25)

\* n: the supplied compoundingFrequency in COMPOUND mode, 1 when it is absent
\* or 0, and 1 in LUMPSUM mode
PeriodsPerYear ==
    IF mode = "COMPOUND" /\ inputs.compoundingFrequency \notin {undefined, Num(0)}
    THEN inputs.compoundingFrequency
    ELSE Num(1)

\* P * (1 + rate/n)^(n*t), rate the net annual rate as a fraction
CompoundedOver(t) ==
    Mul(Args.initialInvestment,
        MathPow(Add(Num(1), Div(Div(NetRate, Num(100)), PeriodsPerYear)),
                Mul(PeriodsPerYear, t)))

\* C19: LUMPSUM compounds once a year whatever compoundingFrequency is
\* supplied; COMPOUND uses the supplied compoundingFrequency n, and n = 1 when
\* it is absent or 0; in both finalValue = P*(1 + rate/n)^(n*t) and row i has
\* total = P*(1 + rate/n)^(n*i).
C19_CompoundingFrequency ==
    (Returned /\ mode \in {"LUMPSUM", "COMPOUND"}) =>
        /\ Totals.finalValue = CompoundedOver(inputs.timePeriodYears)
        /\ result.finalValue = MathRound(CompoundedOver(inputs.timePeriodYears))
        /\ \A i \in 1..Len(Rows) : Rows[i].total = MathRound(CompoundedOver(Num(i)))

\* C19 happens: half-yearly compounding over two years, 100 growing
\* sevenfold every half year
C19_Witness ==
    /\ Returned
    /\ mode = "COMPOUND"
    /\ inputs.compoundingFrequency = Num(2)
    /\ inputs.initialInvestment = Num(100)
    /\ inputs.interestRate = Num(1200)
    /\ Len(Rows) = 2
    /\ Rows[1].total = Num(4900)
    /\ result.finalValue = Num(240100)

\* STOCK: an absent or zero quantity, price or yield is 0
StockField(f) == IF inputs[f] = undefined THEN Num(0) ELSE inputs[f]

\* STOCK: cost, capital gain and the dividends of one year
StockValueAfterOneYear ==
    Add(Add(Mul(StockField("quantity"), StockField("buyPrice")),
            Mul(Sub(StockField("sellPrice"), StockField("buyPrice")),
                StockField("quantity"))),
        Mul(Mul(StockField("buyPrice"), StockField("quantity")),
            Div(StockField("dividendYield"), Num(100))))

\* C20: in STOCK mode a duration of 0 is treated as a duration of 1: with
\* timePeriodYears = 0 the dividends of one year are counted, there is one
\* schedule row, and nothing is divided by the zero duration.
C20_StockZeroDurationAsOne ==
    (Returned /\ mode = "STOCK" /\ inputs.timePeriodYears = Num(0)) =>
        /\ Len(Rows) = 1
        /\ result.finalValue = MathRound(StockValueAfterOneYear)
        /\ \A x \in MonetaryFields : isFinite(x)

\* C21: two calls with the same mode and the same inputs return the same
\* result, rows and labels included, whether or not startYear is supplied and
\* whatever happens between the calls.
C21_SameCallSameResult ==
    [][(Returned /\ mode' = mode /\ inputs' = inputs /\ result' # null) =>
           result' = result]_vars

\* C29: outside LOAN and TAX mode, over a whole effective duration D >= 1,
\* the last row is the row of year D and its total is the returned finalValue.
C29_ScheduleEndsAtFinalValue ==
    (/\ Returned
     /\ mode \notin {"LOAN", "TAX"}
     /\ WholeYears
     /\ result.durationYears.n >= 1) =>
        /\ Len(Rows) = result.durationYears.n
        /\ LastRow.year = result.durationYears
        /\ LastRow.total = result.finalValue

\* C29 happens: a stock position whose second and last year carries the gain
\* and two years of dividends
C29_Witness ==
    /\ Returned
    /\ mode = "STOCK"
    /\ inputs.quantity = Num(3)
    /\ inputs.buyPrice = Num(10)
    /\ inputs.sellPrice = Num(15)
    /\ inputs.dividendYield = Num(5)
    /\ Len(Rows) = 2
    /\ LastRow.total = Num(48)
    /\ result.finalValue = Num(48)

\* every number of the result: the summary fields and the fields of the rows
ResultNumbers ==
    MonetaryFields \cup {result.roiPercentage, result.doublingTime, result.durationYears}
    \cup {Rows[i].year : i \in 1..Len(Rows)} \cup {Rows[i].label : i \in 1..Len(Rows)}

\* the result is the one of the record with field f set to 0
SameAsWithZero(f) ==
    \E now \in ClockYears :
        result = calculateInvestment(mode, [inputs EXCEPT ![f] = Num(0)], now)

\* C22: a record in which a numeric field other than timePeriodYears is
\* absent (interestRate in particular) gives the result of the record with
\* that field set to 0, and a number of the result is NaN or infinite only
\* where it is so with the field set to 0 as well.
C22_AbsentIsZero ==
    Returned =>
        \A f \in Fields \ {"timePeriodYears"} :
            inputs[f] = undefined =>
                /\ SameAsWithZero(f)
                /\ (\E x \in ResultNumbers : ~isFinite(x)) => SameAsWithZero(f)

---------------------------------------------------------------------------
(* Properties of the App and of the advisory call *)

\* an object with a string summary, an array recommendations and a string
\* riskAssessment
IsAdvisory(v) ==
    /\ v # null
    /\ v.type = "object"
    /\ {"summary", "recommendations", "riskAssessment"} \subseteq DOMAIN v.props
    /\ v.props.summary.type = "string"
    /\ v.props.recommendations.type = "array"
    /\ v.props.riskAssessment.type = "string"

\* the service failed to deliver an advisory object: an error, no text, a text
\* that is not JSON, or JSON of another shape
FailedReply(r) ==
    \/ r.kind = "error"
    \/ r.text = ""
    \/ JSONParse(r.text).threw
    \/ ~IsAdvisory(JSONParse(r.text).value)

\* C23: whatever the service did, the advisory object handed to the App has a
\* string summary, an array recommendations and a string riskAssessment, and
\* after a failure of the service it is the fallback object; without an API
\* key it is the notice of the missing key.
C23_AdvisoryAlwaysWellFormed ==
    /\ (reply # null /\ aiData # null) =>
           /\ IsAdvisory(aiData)
           /\ FailedReply(reply) => aiData = Unavailable
    /\ (build = "noKey" /\ aiData # null) => aiData = KeyMissingNotice

\* C24: when the advisory promise rejects, the calculation ends with aiData
\* holding a fallback object, result holding the engine output and
\* isCalculating false.
C24_RejectionGivesFallback ==
    [][(/\ calls # <<>>
        /\ calls' = <<>>
        /\ analyzeInvestment(build, IF build = "key" THEN reply' ELSE null).rejected) =>
           /\ aiData' \in {Unavailable, KeyMissingNotice}
           /\ result' = calls[1].calcResult
           /\ ~isCalculating']_vars

\* the results view is rendered
ResultsShown == result # null /\ ~isCalculating

\* C25: in no state has the engine returned and is the advisory call pending
\* while the results view is hidden.
C25_ResultShownBeforeAdvice ==
    \A i \in 1..Len(calls) : calls[i].pc = "advise" => ResultsShown

\* C26: every calculation ends, even if the service never answers:
\* isCalculating returns to false and the interval is cleared.
C26_CalculationEnds ==
    isCalculating ~> (~isCalculating /\ calls = <<>>)

\* the input records the App can hold
AppInputs == {[defaultInputs EXCEPT !.timePeriodYears = Num(y)] : y \in {1, 2}}

\* C27: whenever the results view is rendered, the result is one the engine
\* computes for the selected mode.
C27_ResultOfSelectedMode ==
    ResultsShown =>
        \E in \in AppInputs, now \in ClockYears :
            result = calculateInvestment(mode, in, now)

\* C28: at most one handleCalculate invocation is unfinished at any time, and
\* isCalculating is true exactly while there is one.
C28_OneCalculationAtATime ==
    /\ Len(calls) <= 1
    /\ isCalculating <=> calls # <<>>

\* C28 happens: a calculation waiting for the service, the button disabled
C28_Witness ==
    /\ Len(calls) = 1
    /\ calls[1].pc = "advise"
    /\ isCalculating
    /\ result # null

\* C30: during a calculation progress stays within 0..100 and never decreases.
C30_ProgressNeverDecreases ==
    [][calls # <<>> => (progress' >= progress /\ progress' \in 0..100)]_vars

====
